---- MODULE Spec2Model ----
(***************************************************************************)
(* Model of src/main.py: the Gemini text summariser.                       *)
(*                                                                         *)
(* Text is a sequence of one-character strings, so that the regular        *)
(* expression substitutions, str.replace, str.split and str.strip can be   *)
(* computed character by character.  Markup produced by the converter is   *)
(* spelled out character by character as well ("<", "b", ">").             *)
(*                                                                         *)
(* Two specifications:                                                     *)
(*   Spec      the Streamlit session: one action per script run            *)
(*             (summarize clicked, download clicked, plain rerun);         *)
(*   SpecConv  convert_markdown_to_html applied to every bounded input.    *)
(***************************************************************************)
EXTENDS Integers, Sequences, FiniteSets, TLC

VARIABLES
    api_key,        \* value of get_api_key(): <<>> when GEMINI_API_KEY is unset
    genai,          \* TRUE iff "import google.generativeai" succeeded
    A4,             \* TRUE iff the reportlab imports succeeded (A4 is not None)
    last_summary,   \* st.session_state.last_summary
    files,          \* names of the files present in the working directory
    clock,          \* last value returned by datetime.now(), in seconds
    run,            \* what the last script run did (observation record)
    text,           \* SpecConv: the argument of convert_markdown_to_html
    html,           \* SpecConv: its result
    pc              \* SpecConv: "input" before the call, "done" after

vars == <<api_key, genai, A4, last_summary, files, clock, run, text, html, pc>>

----------------------------------------------------------------------------
(* Bounds *)

MaxLen == 7          \* longest converter input
MaxSummaryLen == 2   \* longest enumerated text returned by the service
StartTime == 43198   \* first clock value: 11:59:58 AM of day 0
MaxElapsed == 3      \* seconds the clock may advance in a behaviour
MaxAdvance == 2      \* seconds the clock may advance between two reads

EndTime == StartTime + MaxElapsed

----------------------------------------------------------------------------
(* Strings *)

Min(S) == CHOOSE x \in S : \A y \in S : x <= y

StringsUpTo(alphabet, n) == UNION {[1..k -> alphabet] : k \in 0..n}

\* s contains sub as a contiguous substring
Contains(s, sub) ==
    \E i \in 1..(Len(s) - Len(sub) + 1) : SubSeq(s, i, i + Len(sub) - 1) = sub

\* number of positions of s at which sub starts
CountOf(s, sub) ==
    Cardinality({i \in 1..(Len(s) - Len(sub) + 1) :
                    SubSeq(s, i, i + Len(sub) - 1) = sub})

\* str.isspace for one character
IsSpace(c) == c \in {" ", "\n", "\t"}

\* len(s.split()): the number of maximal runs of non-whitespace characters
SplitLen(s) ==
    Cardinality({i \in 1..Len(s) :
                    /\ ~IsSpace(s[i])
                    /\ (i = 1 \/ IsSpace(s[i - 1]))})

\* bool(s.strip()): some character is not whitespace
StripTruthy(s) == \E i \in 1..Len(s) : ~IsSpace(s[i])

\* str.replace(old, new) for a one-character old
RECURSIVE ReplaceFirstOnly(_, _, _)
ReplaceFirstOnly(s, old, new) ==
    IF s = <<>> THEN <<>>
    ELSE IF Head(s) = old THEN new \o Tail(s)
    ELSE <<Head(s)>> \o ReplaceFirstOnly(Tail(s), old, new)

RECURSIVE Replace(_, _, _)
Replace(s, old, new) ==
    IF s = <<>> THEN <<>>
    ELSE (IF Head(s) = old THEN new ELSE <<Head(s)>>) \o Replace(Tail(s), old, new)

----------------------------------------------------------------------------
(* convert_markdown_to_html *)

B_OPEN == <<"<", "b", ">">>
B_CLOSE == <<"<", "/", "b", ">">>
I_OPEN == <<"<", "i", ">">>
I_CLOSE == <<"<", "/", "i", ">">>
BR == <<"<", "b", "r", "/", ">">>
BULL == <<"&", "b", "u", "l", "l", ";">>

\* the bullet glyph U+2022, one character of a text
BULLET == "U+2022"

\* n asterisks start at position i of s
StarsAt(s, i, n) ==
    /\ i >= 1
    /\ i + n - 1 <= Len(s)
    /\ \A j \in 0..(n - 1) : s[i + j] = "*"

\* lengths k of a group the pattern \*{n}(.*?)\*{n} can capture at position i:
\* the group holds no newline ("." without DOTALL) and is followed by n stars
GroupLens(s, i, n) ==
    {k \in 0..Len(s) :
        /\ StarsAt(s, i, n)
        /\ StarsAt(s, i + n + k, n)
        /\ \A j \in 0..(k - 1) : s[i + n + j] # "\n"}

\* re.sub(r"\*{n}(.*?)\*{n}", open + r"\1" + close, s) scanning from position i:
\* leftmost match, shortest group, matches do not overlap
RECURSIVE ReSub(_, _, _, _, _)
ReSub(s, i, n, open, close) ==
    IF i > Len(s) THEN <<>>
    ELSE IF GroupLens(s, i, n) # {}
         THEN LET k == Min(GroupLens(s, i, n))
              IN open \o SubSeq(s, i + n, i + n + k - 1) \o close
                      \o ReSub(s, i + 2 * n + k, n, open, close)
         ELSE <<s[i]>> \o ReSub(s, i + 1, n, open, close)

convert_markdown_to_html(t) ==
    LET t1 == ReSub(t, 1, 2, B_OPEN, B_CLOSE)
        t2 == ReSub(t1, 1, 1, I_OPEN, I_CLOSE)
        t3 == Replace(t2, "\n", BR)
        t4 == Replace(t3, BULLET, BULL)
    IN t4

----------------------------------------------------------------------------
(* datetime.now().strftime *)

\* strftime('%Y%m%d_%H%M%S'): the date, and hour, minute, second of the day
StrftimeFilename(t) ==
    [Ymd |-> t \div 86400,
     H |-> (t % 86400) \div 3600,
     M |-> (t % 3600) \div 60,
     S |-> t % 60]

\* strftime('%B %d, %Y - %I:%M %p'): the date, 12-hour clock hour, minute, AM/PM
StrftimeFooter(t) ==
    LET h == (t % 86400) \div 3600
    IN [BdY |-> t \div 86400,
        I |-> IF h % 12 = 0 THEN 12 ELSE h % 12,
        M |-> (t % 3600) \div 60,
        p |-> IF h < 12 THEN "AM" ELSE "PM"]

----------------------------------------------------------------------------
(* The summarization service and its configuration *)

\* "(No content returned)"
NO_CONTENT ==
    <<"(", "N", "o", " ", "c", "o", "n", "t", "e", "n", "t", " ",
      "r", "e", "t", "u", "r", "n", "e", "d", ")">>

SummaryAlphabet == {"a", " ", "\n"}

\* texts the service may return: every short text and two longer samples
Summaries ==
    StringsUpTo(SummaryAlphabet, MaxSummaryLen)
        \cup {<<"a", " ", " ", "b", "\n", "c">>,
              <<"*", "*", "a", "*", "*", "\n", BULLET, " ", "b">>}

\* what model.generate_content does: raise, or answer with a response object
\* that has a text attribute or has none
ServiceOutcomes ==
    {[kind |-> "raise", text |-> <<>>], [kind |-> "no_text_attr", text |-> <<>>]}
        \cup {[kind |-> "text", text |-> s] : s \in Summaries}

NotCalled == [kind |-> "not_called", text |-> <<>>]

\* getattr(response, "text", "")
generate_gemini_summary(svc) ==
    IF svc.kind = "text" THEN svc.text ELSE <<>>

\* configure_gemini: TRUE iff it returns without raising
configure_gemini(g, key) ==
    IF ~g THEN FALSE
    ELSE IF key = <<>> THEN FALSE
    ELSE TRUE

UserTexts == {<<>>, <<" ", "\n">>, <<"a", " ", "b">>}
ApiKeys == {<<>>, <<"k">>}

----------------------------------------------------------------------------
(* The "Summarize Text" handler, lines 243-255 *)

\* variant: the except branch resets the stored summary
summarize_clicked_reset_on_error(user_text, key, g, svc, prev) ==
    IF user_text = <<>> \/ ~StripTruthy(user_text)
    THEN [last_summary |-> prev, outcome |-> "warning_no_text",
          calls |-> 0, svc |-> NotCalled]
    ELSE IF key = <<>>
    THEN [last_summary |-> prev, outcome |-> "error_key_not_set",
          calls |-> 0, svc |-> NotCalled]
    ELSE IF ~configure_gemini(g, key)
    THEN [last_summary |-> <<>>, outcome |-> "error_failed_to_generate",
          calls |-> 0, svc |-> NotCalled]
    ELSE IF svc.kind = "raise"
    THEN [last_summary |-> <<>>, outcome |-> "error_failed_to_generate",
          calls |-> 1, svc |-> svc]
    ELSE LET summary == generate_gemini_summary(svc)
         IN [last_summary |-> IF summary # <<>> THEN summary ELSE NO_CONTENT,
             outcome |-> "stored", calls |-> 1, svc |-> svc]

\* variant: no key check, and the service is called before it is configured
summarize_clicked_call_first(user_text, key, g, svc, prev) ==
    IF user_text = <<>> \/ ~StripTruthy(user_text)
    THEN [last_summary |-> prev, outcome |-> "warning_no_text",
          calls |-> 0, svc |-> NotCalled]
    ELSE IF svc.kind = "raise" \/ ~configure_gemini(g, key)
    THEN [last_summary |-> prev, outcome |-> "error_failed_to_generate",
          calls |-> 1, svc |-> svc]
    ELSE LET summary == generate_gemini_summary(svc)
         IN [last_summary |-> IF summary # <<>> THEN summary ELSE NO_CONTENT,
             outcome |-> "stored", calls |-> 1, svc |-> svc]

\* variant: a raising call is attempted a second time
summarize_clicked_retry(user_text, key, g, svc, prev) ==
    IF user_text = <<>> \/ ~StripTruthy(user_text)
    THEN [last_summary |-> prev, outcome |-> "warning_no_text",
          calls |-> 0, svc |-> NotCalled]
    ELSE IF key = <<>>
    THEN [last_summary |-> prev, outcome |-> "error_key_not_set",
          calls |-> 0, svc |-> NotCalled]
    ELSE IF ~configure_gemini(g, key)
    THEN [last_summary |-> prev, outcome |-> "error_failed_to_generate",
          calls |-> 0, svc |-> NotCalled]
    ELSE IF svc.kind = "raise"
    THEN [last_summary |-> prev, outcome |-> "error_failed_to_generate",
          calls |-> 2, svc |-> svc]
    ELSE LET summary == generate_gemini_summary(svc)
         IN [last_summary |-> IF summary # <<>> THEN summary ELSE NO_CONTENT,
             outcome |-> "stored", calls |-> 1, svc |-> svc]

\* variant: the returned text is stored without the placeholder fallback
summarize_clicked_no_placeholder(user_text, key, g, svc, prev) ==
    IF user_text = <<>> \/ ~StripTruthy(user_text)
    THEN [last_summary |-> prev, outcome |-> "warning_no_text",
          calls |-> 0, svc |-> NotCalled]
    ELSE IF key = <<>>
    THEN [last_summary |-> prev, outcome |-> "error_key_not_set",
          calls |-> 0, svc |-> NotCalled]
    ELSE IF ~configure_gemini(g, key)
    THEN [last_summary |-> prev, outcome |-> "error_failed_to_generate",
          calls |-> 0, svc |-> NotCalled]
    ELSE IF svc.kind = "raise"
    THEN [last_summary |-> prev, outcome |-> "error_failed_to_generate",
          calls |-> 1, svc |-> svc]
    ELSE [last_summary |-> generate_gemini_summary(svc),
          outcome |-> "stored", calls |-> 1, svc |-> svc]

\* result of one run of the handler: the new last_summary, the message shown,
\* the number of generate_content calls issued and what the service did
summarize_clicked(user_text, key, g, svc, prev) ==
    IF user_text = <<>> \/ ~StripTruthy(user_text)
    THEN [last_summary |-> prev, outcome |-> "warning_no_text",
          calls |-> 0, svc |-> NotCalled]
    ELSE IF key = <<>>
    THEN [last_summary |-> prev, outcome |-> "error_key_not_set",
          calls |-> 0, svc |-> NotCalled]
    ELSE IF ~configure_gemini(g, key)
    THEN [last_summary |-> prev, outcome |-> "error_failed_to_generate",
          calls |-> 0, svc |-> NotCalled]
    ELSE IF svc.kind = "raise"
    THEN [last_summary |-> prev, outcome |-> "error_failed_to_generate",
          calls |-> 1, svc |-> svc]
    ELSE LET summary == generate_gemini_summary(svc)
         IN [last_summary |-> IF summary # <<>> THEN summary ELSE NO_CONTENT,
             outcome |-> "stored", calls |-> 1, svc |-> svc]

----------------------------------------------------------------------------
(* save_summary_as_pdf and the "Download PDF" handler *)

\* what ReportLab does with the content: compose the whole document, raise
\* before the output file is opened (Paragraph parsing), or raise from
\* doc.build after the output file was opened
ComposeOutcomes == {"ok", "raise_before_open", "raise_after_open"}

Filename(t) == <<"AI_Summary_", StrftimeFilename(t), ".pdf">>

\* variant: the words of the converted markup are counted
FooterWordCountOfMarkup(summary_text) ==
    SplitLen(convert_markdown_to_html(summary_text))

\* len(summary_text.split()) of the footer
FooterWordCount(summary_text) == SplitLen(summary_text)

\* variant: the availability check comes after the document is built
save_summary_as_pdf_late_check(summary_text, a4, t1, t2, compose) ==
    LET filename == Filename(t1)
        formatted == convert_markdown_to_html(summary_text)
        footer == <<StrftimeFooter(t2), FooterWordCount(summary_text)>>
    IN IF compose = "ok" /\ a4
       THEN [raised |-> FALSE, error |-> "", renders |-> 1,
             filename |-> filename, created |-> {filename},
             card |-> formatted, footer |-> footer, clock_reads |-> 2]
       ELSE [raised |-> TRUE,
             error |-> IF a4 THEN "compose_failed" ELSE "reportlab_not_installed",
             renders |-> 1, filename |-> <<>>,
             created |-> IF compose = "raise_before_open" THEN {} ELSE {filename},
             card |-> <<>>, footer |-> <<>>,
             clock_reads |-> IF compose = "raise_before_open" THEN 1 ELSE 2]

\* t1, t2: the values of the two datetime.now() calls, in order
save_summary_as_pdf(summary_text, a4, t1, t2, compose) ==
    IF ~a4
    THEN [raised |-> TRUE, error |-> "reportlab_not_installed", renders |-> 0,
          filename |-> <<>>, created |-> {}, card |-> <<>>, footer |-> <<>>,
          clock_reads |-> 0]
    ELSE LET filename == Filename(t1)
             formatted == convert_markdown_to_html(summary_text)
             footer == <<StrftimeFooter(t2), FooterWordCount(summary_text)>>
         IN IF compose = "ok"
            THEN [raised |-> FALSE, error |-> "", renders |-> 1,
                  filename |-> filename, created |-> {filename},
                  card |-> formatted, footer |-> footer, clock_reads |-> 2]
            ELSE [raised |-> TRUE, error |-> "compose_failed", renders |-> 1,
                  filename |-> <<>>,
                  created |-> IF compose = "raise_after_open"
                              THEN {filename} ELSE {},
                  card |-> <<>>, footer |-> <<>>,
                  clock_reads |-> IF compose = "raise_after_open" THEN 2 ELSE 1]

----------------------------------------------------------------------------
(* The session: one action per run of the script *)

\* the pill of the page header, drawn by every run (line 215)
HeaderPill(key) == IF key # <<>> THEN "gemini_configured" ELSE "set_gemini_api_key"

NoRun ==
    [action |-> "none", outcome |-> "none", pill |-> "", calls |-> 0,
     svc |-> NotCalled, renders |-> 0, error |-> "", filename |-> <<>>,
     card |-> <<>>, footer |-> <<>>]

\* a run of the script in which no handler acted
PlainRun(key) == [NoRun EXCEPT !.pill = HeaderPill(key)]

Init ==
    /\ api_key \in ApiKeys
    /\ genai \in BOOLEAN
    /\ A4 \in BOOLEAN
    /\ last_summary = <<>>
    /\ files \in SUBSET {Filename(StartTime)}
    /\ clock = StartTime
    /\ run = PlainRun(api_key)
    /\ text = <<>>
    /\ html = <<>>
    /\ pc = "idle"

\* the "Summarize Text" button is drawn by every run (line 234)
SummarizeButtonDrawn == TRUE

\* the "Download PDF" button is drawn when last_summary is truthy (line 258)
DownloadButtonDrawn == last_summary # <<>>

\* the script runs with summarize_clicked true
SummarizeClicked ==
    /\ SummarizeButtonDrawn
    /\ \E user_text \in UserTexts, svc \in ServiceOutcomes :
        LET r == summarize_clicked(user_text, api_key, genai, svc, last_summary)
        IN /\ last_summary' = r.last_summary
           /\ run' = [PlainRun(api_key) EXCEPT !.action = "summarize",
                                   !.outcome = r.outcome,
                                   !.calls = r.calls,
                                   !.svc = r.svc]
           /\ UNCHANGED <<api_key, genai, A4, files, clock, text, html, pc>>

\* the script runs with the "Download PDF" button pressed; the button is only
\* drawn when last_summary is truthy
DownloadClicked ==
    /\ DownloadButtonDrawn
    /\ \E t1 \in clock..Min({clock + MaxAdvance, EndTime}) :
       \E t2 \in t1..Min({t1 + MaxAdvance, EndTime}) :
       \E compose \in ComposeOutcomes :
          LET r == save_summary_as_pdf(last_summary, A4, t1, t2, compose)
          IN /\ files' = files \cup r.created
             /\ clock' = IF r.clock_reads = 0 THEN clock
                         ELSE IF r.clock_reads = 1 THEN t1 ELSE t2
             /\ run' = [PlainRun(api_key) EXCEPT !.action = "export",
                                     !.outcome = IF r.raised
                                                 THEN "error_pdf_export_failed"
                                                 ELSE "download_offered",
                                     !.renders = r.renders,
                                     !.error = r.error,
                                     !.filename = r.filename,
                                     !.card = r.card,
                                     !.footer = r.footer]
    /\ UNCHANGED <<api_key, genai, A4, last_summary, text, html, pc>>

\* the script runs with no button pressed
Rerun ==
    /\ run' = PlainRun(api_key)
    /\ UNCHANGED <<api_key, genai, A4, last_summary, files, clock, text, html, pc>>

Next == SummarizeClicked \/ DownloadClicked \/ Rerun

Spec == Init /\ [][Next]_vars

----------------------------------------------------------------------------
(* The converter on its own *)

ConvAlphabet == {"*", "a", "\n", BULLET}

InitConv ==
    /\ api_key = <<>>
    /\ genai = FALSE
    /\ A4 = FALSE
    /\ last_summary = <<>>
    /\ files = {}
    /\ clock = StartTime
    /\ run = NoRun
    /\ text \in StringsUpTo(ConvAlphabet, MaxLen)
    /\ html = <<>>
    /\ pc = "input"

Convert ==
    /\ pc = "input"
    /\ html' = convert_markdown_to_html(text)
    /\ pc' = "done"
    /\ UNCHANGED <<api_key, genai, A4, last_summary, files, clock, run, text>>

NextConv == Convert

SpecConv == InitConv /\ [][NextConv]_vars

----------------------------------------------------------------------------
(* Properties *)

FailureOutcomes ==
    {"warning_no_text", "error_key_not_set", "error_failed_to_generate",
     "error_pdf_export_failed"}

\* the last run exported a complete document
Exported == run.action = "export" /\ run.outcome = "download_offered"

\* whitespace-delimited tokens, counted by a left-to-right scan
RECURSIVE Tokens(_, _)
Tokens(s, inToken) ==
    IF s = <<>> THEN 0
    ELSE IF IsSpace(Head(s)) THEN Tokens(Tail(s), FALSE)
    ELSE (IF inToken THEN 0 ELSE 1) + Tokens(Tail(s), TRUE)

\* the text is "**" X "**" for an X without asterisk
IsBoldOfStarFree(t) ==
    /\ Len(t) >= 4
    /\ SubSeq(t, 1, 2) = <<"*", "*">>
    /\ SubSeq(t, Len(t) - 1, Len(t)) = <<"*", "*">>
    /\ \A i \in 3..(Len(t) - 2) : t[i] # "*"

\* X converted: it has no emphasis marker, only line breaks and bullets change
PlainMarkup(x) == Replace(Replace(x, "\n", BR), BULLET, BULL)

\* tag is written at position i of h
TagAt(h, i, tag) ==
    /\ i + Len(tag) - 1 <= Len(h)
    /\ SubSeq(h, i, i + Len(tag) - 1) = tag

\* the <b> and <i> tags of h, read left to right against a stack of open tags
RECURSIVE TagsNested(_, _, _)
TagsNested(h, i, stack) ==
    IF i > Len(h) THEN stack = <<>>
    ELSE IF TagAt(h, i, B_OPEN) THEN TagsNested(h, i + 3, <<"b">> \o stack)
    ELSE IF TagAt(h, i, I_OPEN) THEN TagsNested(h, i + 3, <<"i">> \o stack)
    ELSE IF TagAt(h, i, B_CLOSE)
         THEN stack # <<>> /\ Head(stack) = "b" /\ TagsNested(h, i + 4, Tail(stack))
    ELSE IF TagAt(h, i, I_CLOSE)
         THEN stack # <<>> /\ Head(stack) = "i" /\ TagsNested(h, i + 4, Tail(stack))
    ELSE TagsNested(h, i + 1, stack)

\* C1: in every completed export the timestamp of the filename and the
\* timestamp of the footer denote the same instant (same date, hour and
\* minute), however the clock advances during the call.
C1_FilenameAndFooterSameInstant ==
    Exported =>
        LET fn == run.filename[2]
            ft == run.footer[1]
        IN /\ ft.BdY = fn.Ymd
           /\ ft.M = fn.M
           /\ ft.I = (IF fn.H % 12 = 0 THEN 12 ELSE fn.H % 12)
           /\ ft.p = (IF fn.H < 12 THEN "AM" ELSE "PM")

\* C2 (as stated): a summarize action whose call raised or returned empty or
\* missing content leaves last_summary as it was.
C2_FailedSummarizeKeepsSummary ==
    [][(/\ run'.action = "summarize"
        /\ run'.calls >= 1
        /\ (run'.svc.kind = "raise" \/ generate_gemini_summary(run'.svc) = <<>>))
       => last_summary' = last_summary]_vars

\* C2 (amended): a summarize action whose call raised leaves last_summary as
\* it was; one whose call returned empty or missing content stores the
\* placeholder "(No content returned)".
C2_RaiseKeepsEmptyStoresPlaceholder ==
    [][run'.action = "summarize" =>
        /\ (run'.outcome = "error_failed_to_generate"
                => last_summary' = last_summary)
        /\ (run'.svc.kind = "no_text_attr"
              \/ (run'.svc.kind = "text" /\ run'.svc.text = <<>>)
                => last_summary' = NO_CONTENT)]_vars

C2_Witness ==
    /\ run.action = "summarize"
    /\ run.svc.kind = "raise"
    /\ last_summary \notin {<<>>, NO_CONTENT}

\* C3: with the API key absent a summarize action issues no call of the
\* service; the header reports the missing key, and so does the handler
\* whenever the input has text.
C3_NoCallWithoutKey ==
    [][(api_key = <<>> /\ run'.action = "summarize") =>
        /\ run'.calls = 0
        /\ run'.svc = NotCalled
        /\ run'.pill = "set_gemini_api_key"
        /\ run'.outcome \in {"warning_no_text", "error_key_not_set"}]_vars

C3_Witness ==
    /\ api_key = <<>>
    /\ genai
    /\ run.action = "summarize"
    /\ run.outcome = "error_key_not_set"

\* C4: with ReportLab unavailable an export fails with the not-installed
\* error without composing anything, and the files on disk are unchanged.
C4_UnavailableCreatesNoFile ==
    [][(~A4 /\ run'.action = "export") =>
        /\ run'.outcome = "error_pdf_export_failed"
        /\ run'.error = "reportlab_not_installed"
        /\ run'.renders = 0
        /\ files' = files]_vars

C4_Witness ==
    /\ ~A4
    /\ run.action = "export"
    /\ run.error = "reportlab_not_installed"
    /\ last_summary # <<>>

\* C5: for X without asterisk, the conversion of "**" X "**" contains
\* <b> converted-X </b> and no literal "**".
C5_BoldWrapsStarFreeText ==
    (pc = "done" /\ IsBoldOfStarFree(text)) =>
        /\ Contains(html, B_OPEN \o PlainMarkup(SubSeq(text, 3, Len(text) - 2))
                                 \o B_CLOSE)
        /\ ~Contains(html, <<"*", "*">>)

\* C6: the word count of the footer is the number of whitespace-delimited
\* tokens of the raw summary text.
C6_FooterCountsRawTokens ==
    Exported => run.footer[2] = Tokens(last_summary, FALSE)

C6_Witness ==
    /\ Exported
    /\ last_summary = <<"a", " ", " ", "b", "\n", "c">>
    /\ run.footer[2] = 3
    /\ Tokens(run.card, FALSE) = 2

\* C7: the converted text holds no newline and one <br/> per newline of the
\* input.
C7_OneBreakPerNewline ==
    pc = "done" =>
        /\ \A i \in 1..Len(html) : html[i] # "\n"
        /\ CountOf(html, BR) = CountOf(text, <<"\n">>)

C7_Witness ==
    /\ pc = "done"
    /\ text = <<"*", "\n", "*", "a", "\n">>
    /\ CountOf(html, BR) = 2

\* C8: every action attempts its operation at most once, a failed action and
\* any export leave last_summary unchanged, and the action that just ran can
\* be triggered again.
C8_SingleAttemptAndRetriable ==
    [][/\ run'.calls <= 1
       /\ run'.renders <= 1
       /\ (run'.outcome \in FailureOutcomes => last_summary' = last_summary)
       /\ (run'.action = "export" =>
              last_summary' = last_summary /\ DownloadButtonDrawn')
       /\ (run'.action = "summarize" => SummarizeButtonDrawn')]_vars

C8_Witness ==
    /\ run.action = "export"
    /\ run.outcome = "error_pdf_export_failed"
    /\ run.error = "compose_failed"
    /\ last_summary # <<>>

\* C9: an export only starts with a non-empty last_summary, and a summarize
\* action whose call returned stores the returned text when it is non-empty
\* and the placeholder otherwise.
C9_StoredSummaryNonEmpty ==
    [][/\ (run'.action = "export" => last_summary # <<>>)
       /\ ((run'.action = "summarize" /\ run'.svc.kind \in {"text", "no_text_attr"})
            => /\ last_summary' # <<>>
               /\ last_summary' = (IF run'.svc.kind = "text" /\ run'.svc.text # <<>>
                                   THEN run'.svc.text ELSE NO_CONTENT))]_vars

C9_Witness ==
    /\ run.action = "summarize"
    /\ run.svc.kind = "text"
    /\ run.svc.text = <<>>
    /\ last_summary = NO_CONTENT

\* C10: the <b> and <i> tags of the converted text are balanced and properly
\* nested.
C10_TagsBalancedAndNested ==
    pc = "done" => TagsNested(html, 1, <<>>)

====
